---- MODULE Spec2Model ----
(***************************************************************************)
(* Person API (FastAPI + PostgreSQL + ViaCEP): the request handlers of     *)
(* app.py, the payload validators of models.py and the repository of       *)
(* db.py, as a state machine over the persons table, the lru_cache of the  *)
(* postal lookup and the observation of the last request handled.          *)
(*                                                                         *)
(* Strings that the code inspects character by character (postal codes)    *)
(* are sequences of one-character strings.  Optional values are sequences  *)
(* of length at most one: None is << >>, a value v is << v >>.             *)
(* height_cm and weight_kg are counted in thousandths of their unit, so    *)
(* that the two-decimal scale of the NUMERIC(5,2) columns is visible.      *)
(***************************************************************************)
EXTENDS Integers, Sequences, FiniteSets, TLC

VARIABLES store, nextId, now, cache, openConns, last, pending

vars == <<store, nextId, now, cache, openConns, last, pending>>

-----------------------------------------------------------------------------
(* Bounds of the model *)

\* ids the BIGSERIAL sequence may hand out
MaxId == 2
\* write transactions (INSERT / UPDATE statements executed) per behaviour
MaxClock == 2
\* capacity of the lookup cache: lru_cache(maxsize=1000), scaled down so that
\* the three postal codes of the model can overflow it
maxsize == 2
\* updates that may be between their existence check and their completion
MaxInFlight == 1

-----------------------------------------------------------------------------
(* Optional values *)

None == << >>

Some(v) == << v >>

Val(o) == o[1]

Min(a, b) == IF a < b THEN a ELSE b

Max(a, b) == IF a > b THEN a ELSE b

-----------------------------------------------------------------------------
(* Postal codes as character sequences, re.sub and str.replace *)

Digits == {"0", "1", "2", "3", "4", "5", "6", "7", "8", "9"}

IsDigit(c) == c \in Digits

\* re.sub(r"\D", "", v)
re_sub_D(v) == SelectSeq(v, IsDigit)

NotDash(c) == c # "-"

\* s.replace("-", "")
replace_dash(s) == SelectSeq(s, NotDash)

CepA == <<"0", "1", "0", "0", "1", "0", "0", "0">>

CepAFormatted == <<"0", "1", "0", "0", "1", "-", "0", "0", "0">>

CepB == <<"2", "0", "0", "4", "0", "0", "2", "0">>

CepC == <<"9", "9", "9", "9", "9", "9", "9", "9">>

\* seven characters: below min_length
CepShort == <<"0", "1", "0", "0", "1", "0", "0">>

\* nine digits: passes the length constraint of the field, fails the validator
CepNineDigits == <<"0", "1", "0", "0", "1", "0", "0", "0", "0">>

\* ten characters, eight of them digits: the format dd.ddd-ddd
CepDotted == <<"0", "1", ".", "0", "0", "1", "-", "0", "0", "0">>

CepInputs == {CepA, CepAFormatted, CepB, CepC, CepShort, CepNineDigits, CepDotted}

CepMinLength == 8

CepMaxLength == 9

CepDigits == 8

\* validate_cep without the check of the number of digits
validate_cep_any_count(v) ==
    IF v = None THEN [ok |-> TRUE, value |-> None]
    ELSE IF Len(Val(v)) < CepMinLength \/ Len(Val(v)) > CepMaxLength
         THEN [ok |-> FALSE, value |-> None]
    ELSE [ok |-> TRUE, value |-> Some(re_sub_D(Val(v)))]

\* The cep field of PersonIn / PersonUpdate / CEPUpdate: Field(min_length=8,
\* max_length=9) and then the validator; None passes through.
\* Result: [ok, value] with value the Optional normalized code.
validate_cep(v) ==
    IF v = None THEN [ok |-> TRUE, value |-> None]
    ELSE IF Len(Val(v)) < CepMinLength \/ Len(Val(v)) > CepMaxLength
         THEN [ok |-> FALSE, value |-> None]
    ELSE IF Len(re_sub_D(Val(v))) # CepDigits
         THEN [ok |-> FALSE, value |-> None]
    ELSE [ok |-> TRUE, value |-> Some(re_sub_D(Val(v)))]

-----------------------------------------------------------------------------
(* The ViaCEP provider and fetch_via_cep_cached *)

\* what requests.get may end in
HttpOutcomes == {"ok", "timeout", "status500", "badjson"}

\* the provider writes the code as ddddd-ddd
FormatCep(code) == SubSeq(code, 1, 5) \o <<"-">> \o SubSeq(code, 6, 8)

\* The JSON body the provider answers with for an 8-digit code: CepA has a
\* full address, CepB is a city-wide code (empty logradouro and bairro), any
\* other code is unknown to the provider.
ViaCepData(code) ==
    IF code = CepA
    THEN [cep |-> FormatCep(code), logradouro |-> "Praca da Se", bairro |-> "Se",
          localidade |-> "Sao Paulo", uf |-> "SP"]
    ELSE IF code = CepB
    THEN [cep |-> FormatCep(code), logradouro |-> "", bairro |-> "",
          localidade |-> "Rio de Janeiro", uf |-> "RJ"]
    ELSE [erro |-> "true"]

\* data.get(key)
dict_get(data, key) == IF key \in DOMAIN data THEN Some(data[key]) ELSE None

\* data.get(key) or None
get_or_None(data, key) ==
    IF dict_get(data, key) = None \/ dict_get(data, key) = Some("")
    THEN None ELSE dict_get(data, key)

\* The body of fetch_via_cep_cached (what lru_cache wraps), for the outcome
\* http of the outbound call.  Result: [result, outbound] with result the
\* Optional address dict and outbound telling whether requests.get was called.
fetch_body(cep, http) ==
    LET cep_limpo == re_sub_D(cep) IN
    IF Len(cep_limpo) # CepDigits
    THEN [result |-> None, outbound |-> FALSE]
    ELSE IF http = "ok" /\ dict_get(ViaCepData(cep_limpo), "erro") = None
    THEN [result |-> Some([cep |-> replace_dash(IF "cep" \in DOMAIN ViaCepData(cep_limpo)
                                                  THEN ViaCepData(cep_limpo)["cep"]
                                                  ELSE << >>),
                           street |-> get_or_None(ViaCepData(cep_limpo), "logradouro"),
                           neighborhood |-> get_or_None(ViaCepData(cep_limpo), "bairro"),
                           city |-> get_or_None(ViaCepData(cep_limpo), "localidade"),
                           state |-> get_or_None(ViaCepData(cep_limpo), "uf")]),
          outbound |-> TRUE]
    ELSE [result |-> None, outbound |-> TRUE]

\* The cache is the sequence of [key, val] entries of lru_cache, least
\* recently used first.
CacheKeys(c) == {c[i].key : i \in 1..Len(c)}

CacheIndex(c, k) == CHOOSE i \in 1..Len(c) : c[i].key = k

CacheVal(c, k) == c[CacheIndex(c, k)].val

Without(c, i) == SubSeq(c, 1, i - 1) \o SubSeq(c, i + 1, Len(c))

\* a cache that keeps addresses only and forgets that a code was not found
lru_store_found_only(c, k, v) ==
    IF v = None THEN c
    ELSE IF Len(c) >= maxsize
    THEN Append(Tail(c), [key |-> k, val |-> v])
    ELSE Append(c, [key |-> k, val |-> v])

\* a cache that never drops an entry
lru_store_unbounded(c, k, v) == Append(c, [key |-> k, val |-> v])

\* lru_cache on a miss: the wrapped function's result is stored, negative
\* results included; a full cache drops its least recently used entry.
lru_store(c, k, v) ==
    IF Len(c) >= maxsize
    THEN Append(Tail(c), [key |-> k, val |-> v])
    ELSE Append(c, [key |-> k, val |-> v])

\* lru_cache on a hit: the stored result, the entry becomes the most recent.
lru_hit(c, k) == k \in CacheKeys(c)

\* fetch_via_cep_cached(cep) on cache c, the outbound call (if any) ending in
\* http.  Result: [result, cache, outbound].
fetch_via_cep_cached(c, cep, http) ==
    IF lru_hit(c, cep)
    THEN [result |-> CacheVal(c, cep),
          cache |-> Append(Without(c, CacheIndex(c, cep)), c[CacheIndex(c, cep)]),
          outbound |-> FALSE]
    ELSE [result |-> fetch_body(cep, http).result,
          cache |-> lru_store(c, cep, fetch_body(cep, http).result),
          outbound |-> fetch_body(cep, http).outbound]

\* fetch_via_cep: "wrapper sem cache" that calls the cached function
fetch_via_cep(c, cep, http) == fetch_via_cep_cached(c, cep, http)

\* the calls a lookup adds to the trace of the request
LookupCalls(r) ==
    IF r.outbound THEN <<"fetch_via_cep", "requests.get">> ELSE <<"fetch_via_cep">>

-----------------------------------------------------------------------------
(* The persons table (ensure_schema) *)

BaseFields == {"first_name", "last_name", "age", "height_cm", "weight_kg"}

AddressFields == {"cep", "street", "neighborhood", "city", "state"}

DataCols == BaseFields \cup AddressFields

\* the columns every repository function returns (RETURNING / SELECT list)
OutCols == {"id", "created_at"} \cup DataCols

AllCols == OutCols \cup {"updated_at"}

NameMaxLength == 80

AgeMax == 120

\* 300 cm and 500 kg, in thousandths
HeightMax == 300000

WeightMax == 500000

\* assignment to a NUMERIC(5,2) column rounds to two decimals (half up for
\* the non-negative values the checks admit); v is in thousandths
numeric_5_2(v) == ((v + 5) \div 10) * 10

\* the value column col stores when v is assigned to it
ColumnCast(col, v) ==
    IF col \in {"height_cm", "weight_kg"} /\ v # None
    THEN Some(numeric_5_2(Val(v)))
    ELSE v

\* NOT NULL and CHECK constraints of the table
check_ok(row) ==
    /\ row.first_name # None
    /\ Len(Val(row.first_name)) > 0 /\ Len(Val(row.first_name)) <= NameMaxLength
    /\ row.last_name # None
    /\ Len(Val(row.last_name)) > 0 /\ Len(Val(row.last_name)) <= NameMaxLength
    /\ row.age # None
    /\ Val(row.age) >= 0 /\ Val(row.age) <= AgeMax
    /\ (row.height_cm = None \/ (Val(row.height_cm) >= 0 /\ Val(row.height_cm) <= HeightMax))
    /\ (row.weight_kg = None \/ (Val(row.weight_kg) >= 0 /\ Val(row.weight_kg) <= WeightMax))
    /\ (row.cep = None \/ Len(Val(row.cep)) = CepDigits)

\* the dict the repository builds from a returned row (no updated_at)
row_dict(row) == [c \in OutCols |-> row[c]]

\* BEFORE UPDATE trigger update_updated_at_column: NEW.updated_at = NOW()
update_updated_at_column(row, t) == [row EXCEPT !.updated_at = t]

-----------------------------------------------------------------------------
(* Connections and transactions (get_db_connection) *)

\* where a repository call may raise: psycopg2.connect, cur.execute (or the
\* code after it inside the with block, the statement not having taken
\* effect), conn.commit
FaultPoints == {"connect", "execute", "commit"}

\* the statement has been executed in the transaction when the call got past
\* cur.execute
Executed(fault) == fault \notin {"connect", "execute"}

\* a connection in autocommit: what the statement did stays when commit raises
get_db_connection_autocommit(committed, work, fault) ==
    [store |-> work,
     raised |-> fault # "none",
     opened |-> IF fault = "connect" THEN 0 ELSE 1,
     closed |-> IF fault = "connect" THEN 0 ELSE 1]

\* The context manager around a repository call: committed is the table
\* before the call, work the table as the transaction left it, fault the point
\* at which the call raises ("none": it does not).  commit makes work the
\* table; any exception rolls back; finally closes the connection if one was
\* opened.  Result: [store, raised, opened, closed].
get_db_connection(committed, work, fault) ==
    [store |-> IF fault = "none" THEN work ELSE committed,
     raised |-> fault # "none",
     opened |-> IF fault = "connect" THEN 0 ELSE 1,
     closed |-> IF fault = "connect" THEN 0 ELSE 1]

-----------------------------------------------------------------------------
(* Repository (db.py).  Each result: [store, result, raised, opened, closed,  *)
(* executed], result being what the function returns when it does not raise.  *)

RepoResult(tx, result, executed) ==
    [store |-> tx.store, result |-> IF tx.raised THEN None ELSE result,
     raised |-> tx.raised, opened |-> tx.opened, closed |-> tx.closed,
     executed |-> executed]

\* the point at which a statement producing row raises: a constraint
\* violation makes cur.execute raise
StatementFault(fault, row) ==
    IF fault # "connect" /\ ~check_ok(row) THEN "execute" ELSE fault

\* INSERT INTO persons (...) VALUES (...) RETURNING ...; seq is the value the
\* BIGSERIAL sequence hands out, t is NOW()
create_person_db(S, person_data, seq, t, fault) ==
    LET row == [c \in AllCols |->
                   IF c = "id" THEN seq
                   ELSE IF c \in {"created_at", "updated_at"} THEN t
                   ELSE ColumnCast(c, person_data[c])]
        f == StatementFault(fault, row)
        work == IF Executed(f)
                THEN [i \in DOMAIN S \cup {seq} |-> IF i = seq THEN row ELSE S[i]]
                ELSE S
    IN RepoResult(get_db_connection(S, work, f), Some(row_dict(row)), Executed(f))

\* SELECT ... FROM persons WHERE id = %s
get_person_db(S, person_id, fault) ==
    RepoResult(get_db_connection(S, S, fault),
               IF person_id \in DOMAIN S THEN Some(row_dict(S[person_id])) ELSE None,
               FALSE)

\* a SET list of every key, the None ones written as NULL
update_fields_all(person_data) == DOMAIN person_data

\* the SET list of update_person_db: the keys whose value is not None
update_fields(person_data) == {k \in DOMAIN person_data : person_data[k] # None}

\* UPDATE persons SET <fields> WHERE id = %s RETURNING ...; without fields,
\* get_person_db
update_person_db(S, person_id, person_data, t, fault) ==
    LET fields == update_fields(person_data) IN
    IF fields = {} THEN get_person_db(S, person_id, fault)
    ELSE IF person_id \notin DOMAIN S
    THEN RepoResult(get_db_connection(S, S, fault), None, Executed(fault))
    ELSE LET row == update_updated_at_column(
                        [c \in AllCols |->
                            IF c \in fields THEN ColumnCast(c, person_data[c])
                            ELSE S[person_id][c]], t)
             f == StatementFault(fault, row)
             work == IF Executed(f) THEN [S EXCEPT ![person_id] = row] ELSE S
         IN RepoResult(get_db_connection(S, work, f), Some(row_dict(row)), Executed(f))

\* delete_person_db returning cur.rowcount >= 0
delete_person_db_rowcount_ge_0(S, person_id, fault) ==
    LET work == IF Executed(fault)
                THEN [i \in DOMAIN S \ {person_id} |-> S[i]]
                ELSE S
    IN RepoResult(get_db_connection(S, work, fault),
                  Some(Cardinality(DOMAIN S \cap {person_id}) >= 0), FALSE)

\* DELETE FROM persons WHERE id = %s; returns cur.rowcount > 0
delete_person_db(S, person_id, fault) ==
    LET work == IF Executed(fault)
                THEN [i \in DOMAIN S \ {person_id} |-> S[i]]
                ELSE S
    IN RepoResult(get_db_connection(S, work, fault),
                  Some(Cardinality(DOMAIN S \cap {person_id}) > 0), FALSE)

\* ORDER BY created_at DESC over the rows with ids in ids
RECURSIVE order_by_created_at_desc(_, _)
order_by_created_at_desc(S, ids) ==
    IF ids = {} THEN << >>
    ELSE LET first == CHOOSE i \in ids :
                         \A j \in ids : S[i].created_at >= S[j].created_at
         IN <<S[first]>> \o order_by_created_at_desc(S, ids \ {first})

\* LIMIT %s OFFSET %s
limit_offset(rows, limit, offset) ==
    SubSeq(rows, offset + 1, Min(offset + limit, Len(rows)))

\* SELECT COUNT(*) and the page; returns (persons, total)
list_persons_db(S, limit, offset, fault) ==
    LET page == limit_offset(order_by_created_at_desc(S, DOMAIN S), limit, offset)
    IN RepoResult(get_db_connection(S, S, fault),
                  Some([persons |-> [i \in 1..Len(page) |-> row_dict(page[i])],
                        total |-> Cardinality(DOMAIN S)]),
                  FALSE)

-----------------------------------------------------------------------------
(* Payload models (models.py) *)

str_field_ok(v) == Len(Val(v)) >= 1 /\ Len(Val(v)) <= NameMaxLength

num_field_ok(v, hi) == Val(v) >= 0 /\ Val(v) <= hi

\* PersonIn: first_name, last_name and age are required.  Result: [ok, person],
\* person being the body with the validated (normalized) cep.
PersonIn(body) ==
    [ok |-> /\ body.first_name # None /\ str_field_ok(body.first_name)
            /\ body.last_name # None /\ str_field_ok(body.last_name)
            /\ body.age # None /\ num_field_ok(body.age, AgeMax)
            /\ (body.height_cm = None \/ num_field_ok(body.height_cm, HeightMax))
            /\ (body.weight_kg = None \/ num_field_ok(body.weight_kg, WeightMax))
            /\ validate_cep(body.cep).ok,
     person |-> [body EXCEPT !.cep = validate_cep(body.cep).value]]

\* PersonUpdate: every field optional
PersonUpdate(body) ==
    [ok |-> /\ (body.first_name = None \/ str_field_ok(body.first_name))
            /\ (body.last_name = None \/ str_field_ok(body.last_name))
            /\ (body.age = None \/ num_field_ok(body.age, AgeMax))
            /\ (body.height_cm = None \/ num_field_ok(body.height_cm, HeightMax))
            /\ (body.weight_kg = None \/ num_field_ok(body.weight_kg, WeightMax))
            /\ validate_cep(body.cep).ok,
     person |-> [body EXCEPT !.cep = validate_cep(body.cep).value]]

\* CEPUpdate: cep is required
CEPUpdate(body) ==
    [ok |-> body.cep # None /\ validate_cep(body.cep).ok,
     person |-> [body EXCEPT !.cep = validate_cep(body.cep).value]]

-----------------------------------------------------------------------------
(* Request handlers (app.py).  Each is an operator from the state and the    *)
(* request to [store, cache, nextId, now, conns, last]: the state the        *)
(* handler leaves, the connections it leaves open, and the observation of    *)
(* the request.                                                              *)

\* at most one repository call of a request raises: at is its position among
\* the repository calls of the handler (0: none raises)
NoFault == [at |-> 0, point |-> "none"]

\* the faults drawn for a handler with n repository calls: any point of its
\* last call, and a failure to connect in the calls before it
Faults(n) ==
    {NoFault} \cup [at : {n}, point : FaultPoints]
              \cup [at : 1..(n - 1), point : {"connect"}]

FaultFor(f, k) == IF f.at = k THEN f.point ELSE "none"

Request(op, id, body, limit, offset) ==
    [op |-> op, id |-> id, body |-> body, limit |-> limit, offset |-> offset,
     status |-> 0, calls |-> << >>, endereco |-> None, update_data |-> << >>,
     result |-> None, raised |-> FALSE, executed |-> FALSE]

Outcome(S, c, seq, n, conns, obs) ==
    [store |-> S, cache |-> c, nextId |-> seq, now |-> n, conns |-> conns, last |-> obs]

\* "if not endereco": the lookup found nothing
not_endereco(endereco) == endereco = None

\* person_data with the city and the state of the address exchanged
person_data_city_state_swapped(person, endereco) ==
    [k \in DataCols |->
        IF k \in BaseFields THEN person[k]
        ELSE IF k = "cep"
             THEN IF ~not_endereco(endereco) THEN Some(Val(endereco).cep) ELSE person.cep
        ELSE IF not_endereco(endereco) THEN None
        ELSE IF k = "city" THEN Val(endereco).state
        ELSE IF k = "state" THEN Val(endereco).city
        ELSE Val(endereco)[k]]

\* the dict create_person hands to create_person_db
person_data(person, endereco) ==
    [k \in DataCols |->
        IF k \in BaseFields THEN person[k]
        ELSE IF k = "cep"
             THEN IF ~not_endereco(endereco) THEN Some(Val(endereco).cep) ELSE person.cep
        ELSE IF ~not_endereco(endereco) THEN Val(endereco)[k] ELSE None]

\* the five address entries update_person and update_person_cep put into
\* update_data
address_data(endereco) ==
    [k \in AddressFields |->
        IF k = "cep" THEN Some(Val(endereco).cep) ELSE Val(endereco)[k]]

\* the entries update_person copies from the payload: the fields that are
\* not None
supplied_data(person) ==
    [k \in {b \in BaseFields : person[b] # None} |-> person[k]]

merge(d1, d2) ==
    [k \in DOMAIN d1 \cup DOMAIN d2 |-> IF k \in DOMAIN d2 THEN d2[k] ELSE d1[k]]

\* a create that goes on without address when the lookup found nothing
create_rejects_never(looks, endereco) == FALSE

\* create_person, "if person.cep: ... if not endereco: raise 400": a payload
\* with a postal code that the lookup did not find is rejected
create_rejects(looks, endereco) == looks /\ not_endereco(endereco)

\* POST /persons
create_person(S, c, seq, n, body, http, f) ==
    LET req == Request("create", 0, body, 0, 0)
        v == PersonIn(body)
        person == v.person
        looks == person.cep # None /\ Val(person.cep) # << >>
        lk == fetch_via_cep(c, Val(person.cep), http)
        endereco == IF looks THEN lk.result ELSE None
        c2 == IF looks THEN lk.cache ELSE c
        calls1 == IF looks THEN LookupCalls(lk) ELSE << >>
        r == create_person_db(S, person_data(person, endereco), seq, n + 1, FaultFor(f, 1))
    IN
    IF ~v.ok
    THEN Outcome(S, c, seq, n, 0, [req EXCEPT !.status = 422])
    ELSE IF create_rejects(looks, endereco)
    THEN Outcome(S, c2, seq, n, 0,
                 [req EXCEPT !.status = 400, !.calls = calls1])
    ELSE Outcome(r.store, c2,
                 IF r.executed THEN seq + 1 ELSE seq,
                 IF r.executed THEN n + 1 ELSE n,
                 r.opened - r.closed,
                 [req EXCEPT !.status = IF r.raised \/ r.result = None THEN 500 ELSE 201,
                             !.calls = calls1 \o <<"create_person_db">>,
                             !.endereco = endereco,
                             !.result = r.result,
                             !.raised = r.raised,
                             !.executed = r.executed])

\* GET /persons/{person_id}
get_person(S, c, seq, n, person_id, f) ==
    LET req == Request("get", person_id, None, 0, 0)
        r == get_person_db(S, person_id, FaultFor(f, 1))
    IN Outcome(r.store, c, seq, n, r.opened - r.closed,
               [req EXCEPT !.status = IF r.raised THEN 500
                                      ELSE IF r.result = None THEN 404 ELSE 200,
                           !.calls = <<"get_person_db">>,
                           !.result = r.result,
                           !.raised = r.raised])

LimitMin == 1

LimitMax == 100

\* has_next with <= for <
has_next_inclusive(limit, offset, total) == (offset + limit) <= total

\* "has_next": (offset + limit) < total
has_next(limit, offset, total) == (offset + limit) < total

\* GET /persons?limit&offset
list_persons(S, c, seq, n, limit, offset, f) ==
    LET req == Request("list", 0, None, limit, offset)
        r == list_persons_db(S, limit, offset, FaultFor(f, 1))
    IN
    IF limit < LimitMin \/ limit > LimitMax \/ offset < 0
    THEN Outcome(S, c, seq, n, 0, [req EXCEPT !.status = 422])
    ELSE Outcome(r.store, c, seq, n, r.opened - r.closed,
                 [req EXCEPT !.status = IF r.raised THEN 500 ELSE 200,
                             !.calls = <<"list_persons_db">>,
                             !.result =
                                IF r.raised THEN None
                                ELSE Some([persons |-> Val(r.result).persons,
                                           total |-> Val(r.result).total,
                                           limit |-> limit,
                                           offset |-> offset,
                                           has_next |-> has_next(limit, offset,
                                                                 Val(r.result).total)]),
                             !.raised = r.raised])

\* The part of update_person and update_person_cep after the lookup:
\* update_person_db and the shaping of the response.
apply_update(S, c, seq, n, req, calls, endereco, update_data, f, conns) ==
    LET r == update_person_db(S, req.id, update_data, n + 1, FaultFor(f, 2))
    IN Outcome(r.store, c, seq,
               IF r.executed THEN n + 1 ELSE n,
               conns + r.opened - r.closed,
               [req EXCEPT !.status = IF r.raised \/ r.result = None THEN 500 ELSE 200,
                           !.calls = calls \o <<"update_person_db">>,
                           !.endereco = endereco,
                           !.update_data = update_data,
                           !.result = r.result,
                           !.raised = r.raised,
                           !.executed = r.executed])

\* PUT /persons/{person_id}
update_person(S, c, seq, n, person_id, body, http, f) ==
    LET req == Request("update", person_id, body, 0, 0)
        v == PersonUpdate(body)
        person == v.person
        r1 == get_person_db(S, person_id, FaultFor(f, 1))
        conns1 == r1.opened - r1.closed
        looks == person.cep # None
        lk == fetch_via_cep(c, Val(person.cep), http)
        endereco == IF looks THEN lk.result ELSE None
        c2 == IF looks THEN lk.cache ELSE c
        calls2 == <<"get_person_db">> \o (IF looks THEN LookupCalls(lk) ELSE << >>)
    IN
    IF ~v.ok
    THEN Outcome(S, c, seq, n, 0, [req EXCEPT !.status = 422])
    ELSE IF r1.raised
    THEN Outcome(S, c, seq, n, conns1,
                 [req EXCEPT !.status = 500, !.calls = <<"get_person_db">>,
                             !.raised = TRUE])
    ELSE IF r1.result = None
    THEN Outcome(S, c, seq, n, conns1,
                 [req EXCEPT !.status = 404, !.calls = <<"get_person_db">>])
    ELSE IF looks /\ not_endereco(endereco)
    THEN Outcome(S, c2, seq, n, conns1, [req EXCEPT !.status = 400, !.calls = calls2])
    ELSE apply_update(S, c2, seq, n, req, calls2, endereco,
                      IF looks THEN merge(supplied_data(person), address_data(endereco))
                      ELSE supplied_data(person),
                      f, conns1)

\* PATCH /persons/{person_id}/cep
update_person_cep(S, c, seq, n, person_id, body, http, f) ==
    LET req == Request("patch", person_id, body, 0, 0)
        v == CEPUpdate(body)
        cep_data == v.person
        r1 == get_person_db(S, person_id, FaultFor(f, 1))
        conns1 == r1.opened - r1.closed
        lk == fetch_via_cep(c, Val(cep_data.cep), http)
        endereco == lk.result
        calls2 == <<"get_person_db">> \o LookupCalls(lk)
    IN
    IF ~v.ok
    THEN Outcome(S, c, seq, n, 0, [req EXCEPT !.status = 422])
    ELSE IF r1.raised
    THEN Outcome(S, c, seq, n, conns1,
                 [req EXCEPT !.status = 500, !.calls = <<"get_person_db">>,
                             !.raised = TRUE])
    ELSE IF r1.result = None
    THEN Outcome(S, c, seq, n, conns1,
                 [req EXCEPT !.status = 404, !.calls = <<"get_person_db">>])
    ELSE IF not_endereco(endereco)
    THEN Outcome(S, lk.cache, seq, n, conns1,
                 [req EXCEPT !.status = 400, !.calls = calls2])
    ELSE apply_update(S, lk.cache, seq, n, req, calls2, endereco,
                      address_data(endereco), f, conns1)

\* DELETE /persons/{person_id}
delete_person(S, c, seq, n, person_id, f) ==
    LET req == Request("delete", person_id, None, 0, 0)
        r == delete_person_db(S, person_id, FaultFor(f, 1))
    IN Outcome(r.store, c, seq, n, r.opened - r.closed,
               [req EXCEPT !.status = IF r.raised THEN 500
                                      ELSE IF ~Val(r.result) THEN 404 ELSE 200,
                           !.calls = <<"delete_person_db">>,
                           !.result = r.result,
                           !.raised = r.raised])

\* GET /cep/{cep}
get_address_by_cep(S, c, seq, n, cep, http) ==
    LET req == Request("cep", 0, [cep |-> Some(cep)], 0, 0)
        cep_limpo == re_sub_D(cep)
        lk == fetch_via_cep(c, cep_limpo, http)
    IN
    IF Len(cep_limpo) # CepDigits
    THEN Outcome(S, c, seq, n, 0, [req EXCEPT !.status = 400])
    ELSE Outcome(S, lk.cache, seq, n, 0,
                 [req EXCEPT !.status = IF not_endereco(lk.result) THEN 404 ELSE 200,
                             !.calls = LookupCalls(lk),
                             !.endereco = lk.result,
                             !.result = lk.result])

-----------------------------------------------------------------------------
(* Requests of the model *)

BodyAna ==
    [first_name |-> Some("Ana"), last_name |-> Some("Silva"), age |-> Some(30),
     height_cm |-> Some(170456), weight_kg |-> None, cep |-> None]

\* age above the maximum
BodyTooOld == [BodyAna EXCEPT !.age = Some(121)]

CreateBodies ==
    {BodyAna, BodyTooOld} \cup {[BodyAna EXCEPT !.cep = Some(raw)] : raw \in CepInputs}

UpdateNothing ==
    [first_name |-> None, last_name |-> None, age |-> None,
     height_cm |-> None, weight_kg |-> None, cep |-> None]

UpdateNameHeight ==
    [UpdateNothing EXCEPT !.first_name = Some("Bia"), !.height_cm = Some(180004)]

UpdateRest ==
    [UpdateNothing EXCEPT !.last_name = Some("Souza"), !.age = Some(31),
                          !.weight_kg = Some(70500)]

UpdateBodies ==
    {UpdateNothing, UpdateNameHeight,
     [UpdateRest EXCEPT !.cep = Some(CepB)],
     [UpdateNothing EXCEPT !.cep = Some(CepAFormatted)],
     [UpdateNothing EXCEPT !.cep = Some(CepC)],
     [UpdateNothing EXCEPT !.cep = Some(CepNineDigits)],
     [UpdateNothing EXCEPT !.cep = Some(CepDotted)]}

PatchBodies ==
    {[cep |-> None]} \cup {[cep |-> Some(raw)] : raw \in {CepAFormatted, CepB, CepC, CepShort, CepDotted}}

Ids == 1..MaxId

\* <<limit, offset>>
ListInputs ==
    {<<LimitMin, 0>>, <<LimitMin, 1>>, <<2, 1>>, <<LimitMax, 0>>, <<LimitMin, MaxId>>,
     <<LimitMin - 1, 0>>, <<LimitMax + 1, 0>>, <<LimitMin, -1>>}

-----------------------------------------------------------------------------
(* The state machine *)

Init ==
    /\ store = << >>
    /\ nextId = 1
    /\ now = 0
    /\ cache = << >>
    /\ openConns = 0
    /\ last = Request("init", 0, None, 0, 0)
    /\ pending = {}

Handled(o) ==
    LET r == o IN
    /\ store' = r.store
    /\ cache' = r.cache
    /\ nextId' = r.nextId
    /\ now' = r.now
    /\ openConns' = openConns + r.conns
    /\ last' = r.last
    /\ pending' = pending

\* The outcome of the outbound call is drawn only when the request can make
\* one: its postal code is valid and not in the cache.
HttpFor(cep) ==
    IF validate_cep(cep).ok /\ validate_cep(cep).value # None
       /\ ~lru_hit(cache, Val(validate_cep(cep).value))
    THEN HttpOutcomes ELSE {"ok"}

\* A repository fault is drawn only when the payload passes validation.
FaultsFor(ok, n) == IF ok THEN Faults(n) ELSE {NoFault}

\* What the environment does during one request, <<http, fault>>: a handler
\* that meets a failed lookup or a store fault stops there, so at most one of
\* the two is drawn.
Env(https, faults) ==
    {<<h, NoFault>> : h \in https} \cup {<<"ok", f>> : f \in faults}

Create ==
    /\ nextId <= MaxId
    /\ now < MaxClock
    /\ \E body \in CreateBodies :
       \E e \in Env(HttpFor(body.cep), FaultsFor(PersonIn(body).ok, 1)) :
          Handled(create_person(store, cache, nextId, now, body, e[1], e[2]))

Get ==
    \E id \in Ids, f \in Faults(1) :
        Handled(get_person(store, cache, nextId, now, id, f))

\* a read fails the same way at every point: its faults are drawn for the
\* first page only
List ==
    \E lo \in ListInputs :
    \E f \in FaultsFor(lo = <<LimitMin, 0>>, 1) :
        Handled(list_persons(store, cache, nextId, now, lo[1], lo[2], f))

Update ==
    /\ now < MaxClock
    /\ \E id \in Ids, body \in UpdateBodies :
       \E e \in Env(HttpFor(body.cep), FaultsFor(PersonUpdate(body).ok, 2)) :
          Handled(update_person(store, cache, nextId, now, id, body, e[1], e[2]))

Patch ==
    /\ now < MaxClock
    /\ \E id \in Ids, body \in PatchBodies :
       \E e \in Env(HttpFor(body.cep), FaultsFor(CEPUpdate(body).ok, 2)) :
          Handled(update_person_cep(store, cache, nextId, now, id, body, e[1], e[2]))

Delete ==
    \E id \in Ids, f \in Faults(1) :
        Handled(delete_person(store, cache, nextId, now, id, f))

GetCep ==
    \E cep \in CepInputs :
    \E http \in HttpFor(Some(cep)) :
        Handled(get_address_by_cep(store, cache, nextId, now, cep, http))

Next == Create \/ Get \/ List \/ Update \/ Patch \/ Delete \/ GetCep

Spec == Init /\ [][Next]_vars

-----------------------------------------------------------------------------
(* Requests handled concurrently.  A request whose handler makes a single    *)
(* repository call is one transaction and one step.  update_person and       *)
(* update_person_cep are three steps, between which other requests run:      *)
(* get_person_db (the existence check), fetch_via_cep, update_person_db.     *)
(* pending holds the updates that are between two of their steps.            *)

\* an update that passed its existence check
InFlight(req, person, looks, update_data) ==
    [req |-> [req EXCEPT !.calls = <<"get_person_db">>],
     person |-> person,
     pc |-> IF looks THEN "lookup" ELSE "update",
     endereco |-> None,
     update_data |-> update_data]

\* First step of update_person and update_person_cep: the payload has been
\* validated, get_person_db runs.  The request ends here with 422, 500 or
\* 404, or goes on.
ExistenceCheck(req, ok, person, looks, update_data, f) ==
    LET r1 == get_person_db(store, req.id, FaultFor(f, 1)) IN
    /\ Cardinality(pending) < MaxInFlight
    /\ UNCHANGED <<store, nextId, now, cache>>
    /\ IF ~ok
       THEN /\ last' = [req EXCEPT !.status = 422]
            /\ UNCHANGED <<openConns, pending>>
       ELSE /\ openConns' = openConns + r1.opened - r1.closed
            /\ IF r1.raised
               THEN /\ last' = [req EXCEPT !.status = 500, !.calls = <<"get_person_db">>,
                                            !.raised = TRUE]
                    /\ pending' = pending
               ELSE IF r1.result = None
               THEN /\ last' = [req EXCEPT !.status = 404, !.calls = <<"get_person_db">>]
                    /\ pending' = pending
               ELSE /\ pending' = pending \cup {InFlight(req, person, looks, update_data)}
                    /\ last' = last

\* the payloads of the updates that run concurrently with other requests
ConcurrentUpdateBodies ==
    {UpdateNothing, UpdateNameHeight,
     [UpdateRest EXCEPT !.cep = Some(CepB)],
     [UpdateNothing EXCEPT !.cep = Some(CepNineDigits)]}

ConcurrentPatchBodies == {[cep |-> Some(raw)] : raw \in {CepAFormatted, CepC}}

UpdateCheck ==
    \E id \in Ids, body \in ConcurrentUpdateBodies :
    \E f \in FaultsFor(PersonUpdate(body).ok, 1) :
        ExistenceCheck(Request("update", id, body, 0, 0),
                       PersonUpdate(body).ok, PersonUpdate(body).person,
                       PersonUpdate(body).person.cep # None,
                       supplied_data(PersonUpdate(body).person), f)

PatchCheck ==
    \E id \in Ids, body \in ConcurrentPatchBodies :
    \E f \in FaultsFor(CEPUpdate(body).ok, 1) :
        ExistenceCheck(Request("patch", id, body, 0, 0),
                       CEPUpdate(body).ok, CEPUpdate(body).person, TRUE, << >>, f)

\* Second step: fetch_via_cep; "if not endereco" the request ends with 400,
\* else the address goes into update_data.
Lookup ==
    \E p \in pending :
    \E http \in HttpFor(p.person.cep) :
        LET lk == fetch_via_cep(cache, Val(p.person.cep), http) IN
        /\ p.pc = "lookup"
        /\ cache' = lk.cache
        /\ UNCHANGED <<store, nextId, now, openConns>>
        /\ IF not_endereco(lk.result)
           THEN /\ pending' = pending \ {p}
                /\ last' = [p.req EXCEPT !.status = 400,
                                         !.calls = @ \o LookupCalls(lk)]
           ELSE /\ pending' = (pending \ {p}) \cup
                                {[p EXCEPT !.pc = "update",
                                           !.req.calls = @ \o LookupCalls(lk),
                                           !.endereco = lk.result,
                                           !.update_data =
                                               merge(@, address_data(lk.result))]}
                /\ last' = last

\* Third step: update_person_db on the table as it is now, and the response.
RunUpdate ==
    /\ now < MaxClock
    /\ \E p \in pending :
       \E f \in {NoFault} \cup [at : {2}, point : FaultPoints] :
          LET o == apply_update(store, cache, nextId, now, p.req, p.req.calls,
                                p.endereco, p.update_data, f, 0)
          IN /\ p.pc = "update"
             /\ store' = o.store
             /\ cache' = o.cache
             /\ nextId' = o.nextId
             /\ now' = o.now
             /\ openConns' = openConns + o.conns
             /\ last' = o.last
             /\ pending' = pending \ {p}

NextConcurrent ==
    Create \/ Delete \/ UpdateCheck \/ PatchCheck \/ Lookup \/ RunUpdate

SpecConcurrent == Init /\ [][NextConcurrent]_vars

-----------------------------------------------------------------------------
(* Reading the observation of a request *)

Called(obs, name) == \E i \in 1..Len(obs.calls) : obs.calls[i] = name

CallCount(obs, name) == Cardinality({i \in 1..Len(obs.calls) : obs.calls[i] = name})

\* the key under which the request's postal code is looked up
LookupKey(obs) == re_sub_D(Val(obs.body.cep))

OtherCols == AllCols \ (AddressFields \cup {"updated_at"})

StreetFields == AddressFields \ {"cep"}

-----------------------------------------------------------------------------
(* C1 *)

\* C1: every stored record whose postal code is set has street, neighborhood,
\* city and state equal to what the lookup returns for that postal code, a
\* field the lookup omits being absent in the record.
C1_AddressOfCurrentCode ==
    \A id \in DOMAIN store :
        store[id].cep # None =>
            /\ fetch_body(Val(store[id].cep), "ok").result # None
            /\ \A k \in StreetFields :
                  store[id][k] = Val(fetch_body(Val(store[id].cep), "ok").result)[k]

-----------------------------------------------------------------------------
(* C2 *)

\* C2: a create whose postal code the lookup resolves persists a record whose
\* five address fields are those of the resolved address (the entry the
\* lookup left in the cache for the normalized code); a create without postal
\* code persists a record whose five address fields are absent.
C2_CreatePersistsResolvedAddress ==
    [][(last'.op = "create" /\ last'.status # 422 /\ ~last'.raised) =>
          IF last'.body.cep = None
          THEN /\ last'.status = 201
               /\ nextId \in DOMAIN store' /\ nextId \notin DOMAIN store
               /\ \A k \in AddressFields : store'[nextId][k] = None
          ELSE /\ LookupKey(last') \in CacheKeys(cache')
               /\ CacheVal(cache', LookupKey(last')) # None =>
                     /\ last'.status = 201
                     /\ nextId \in DOMAIN store' /\ nextId \notin DOMAIN store
                     /\ store'[nextId].cep =
                           Some(Val(CacheVal(cache', LookupKey(last'))).cep)
                     /\ \A k \in StreetFields :
                           store'[nextId][k] =
                              Val(CacheVal(cache', LookupKey(last')))[k]
      ]_vars

\* a record created from the city-wide code: the fields the lookup omitted
\* are absent, the others set
C2_Witness ==
    /\ last.op = "create" /\ last.status = 201
    /\ last.body.cep = Some(CepB)
    /\ (nextId - 1) \in DOMAIN store
    /\ store[nextId - 1].cep = Some(CepB)
    /\ store[nextId - 1].street = None
    /\ store[nextId - 1].city = Some("Rio de Janeiro")

-----------------------------------------------------------------------------
(* C3 *)

\* C3: a postal-only update of an existing record with a resolvable code sets
\* each of the five address fields to the newly resolved value and leaves the
\* other columns of the record, and every other record, unchanged.
C3_PatchSetsExactlyAddress ==
    [][(last'.op = "patch" /\ last'.status = 200) =>
          /\ DOMAIN store' = DOMAIN store
          /\ last'.id \in DOMAIN store
          /\ last'.endereco # None
          /\ store'[last'.id].cep = Some(Val(last'.endereco).cep)
          /\ \A k \in StreetFields : store'[last'.id][k] = Val(last'.endereco)[k]
          /\ \A k \in OtherCols : store'[last'.id][k] = store[last'.id][k]
          /\ \A j \in DOMAIN store \ {last'.id} : store'[j] = store[j]
      ]_vars

-----------------------------------------------------------------------------
(* C4 *)

\* C4: in create, full update and postal-only update, a lookup that yields
\* NotFound makes the request end in 400 with the store as before it (no row
\* inserted, no column changed, no repository write called); a failure of the
\* provider call is such a NotFound, and no handler ends in 500 without a
\* store fault.
C4_NotFoundRejectsAndKeepsStore ==
    [][/\ (/\ last'.op \in {"create", "update", "patch"}
           /\ Called(last', "fetch_via_cep")
           /\ last'.endereco = None) =>
              /\ last'.status = 400
              /\ store' = store
              /\ nextId' = nextId
              /\ ~Called(last', "create_person_db")
              /\ ~Called(last', "update_person_db")
       /\ last'.status = 500 => last'.raised
      ]_vars

\* a postal-only update whose provider call failed for a code the provider
\* knows
C4_Witness ==
    /\ last.op = "patch" /\ last.status = 400
    /\ last.body.cep = Some(CepAFormatted)
    /\ Called(last, "requests.get")
    /\ last.id \in DOMAIN store

-----------------------------------------------------------------------------
(* C5 *)

\* C5: a create whose postal code does not have exactly 8 digits after
\* stripping the non-digits is rejected as a validation error with no lookup
\* call, no outbound call and no repository call made, store and cache as
\* before.
C5_InvalidCodeRejectedFirst ==
    [][(/\ last'.op = "create"
        /\ last'.body.cep # None
        /\ Len(re_sub_D(Val(last'.body.cep))) # CepDigits) =>
           /\ last'.status = 422
           /\ last'.calls = << >>
           /\ store' = store
           /\ cache' = cache
           /\ nextId' = nextId
      ]_vars

\* nine digits: the length constraint of the field lets it through, the
\* validator rejects it
C5_Witness ==
    /\ last.op = "create" /\ last.status = 422
    /\ last.body.cep = Some(CepNineDigits)
    /\ last.body.age = Some(30)

-----------------------------------------------------------------------------
(* C6 *)

-----------------------------------------------------------------------------
(* C7 *)

\* the rows created after row id
NewerThan(id) == {j \in DOMAIN store : store[j].created_at > store[id].created_at}

\* C7: list(limit, offset) with limit in [1,100] and offset >= 0 answers 200
\* (the store not failing) with total the number of records, exactly
\* min(limit, max(0, total - offset)) records, the i-th of them being the
\* record with offset + i - 1 records newer than it, and has_next true
\* exactly when offset + limit < total.
C7_ListPage ==
    last.op = "list" =>
        /\ (last.limit >= LimitMin /\ last.limit <= LimitMax /\ last.offset >= 0
            /\ ~last.raised) <=> last.status = 200
        /\ last.status = 200 =>
              LET res == Val(last.result)
                  total == Cardinality(DOMAIN store)
              IN /\ res.total = total
                 /\ Len(res.persons) = Min(last.limit, Max(0, total - last.offset))
                 /\ \A i \in 1..Len(res.persons) :
                       /\ res.persons[i].id \in DOMAIN store
                       /\ res.persons[i] = row_dict(store[res.persons[i].id])
                       /\ Cardinality(NewerThan(res.persons[i].id)) = last.offset + i - 1
                 /\ \A i, j \in 1..Len(res.persons) :
                       i < j => res.persons[i].created_at >= res.persons[j].created_at
                 /\ res.has_next <=> (last.offset + last.limit < total)

\* a page that the records left after the offset do not fill
C7_Witness ==
    /\ last.op = "list" /\ last.status = 200
    /\ last.limit = 2 /\ last.offset = 1
    /\ Len(Val(last.result).persons) = 1
    /\ Val(last.result).total = 2
    /\ ~Val(last.result).has_next

-----------------------------------------------------------------------------
(* C8 *)

\* C8: the store not failing, delete of an id with no record answers 404 and
\* leaves the store unchanged; delete of an existing id answers 200 and
\* removes exactly that record, after which a second delete of the id answers
\* 404 and leaves the store as the first delete left it.
C8_DeleteIdempotent ==
    [][(last'.op = "delete" /\ ~last'.raised) =>
          IF last'.id \in DOMAIN store
          THEN /\ last'.status = 200
               /\ DOMAIN store' = DOMAIN store \ {last'.id}
               /\ \A j \in DOMAIN store' : store'[j] = store[j]
               /\ delete_person(store', cache', nextId', now', last'.id, NoFault).last.status
                     = 404
               /\ delete_person(store', cache', nextId', now', last'.id, NoFault).store
                     = store'
          ELSE /\ last'.status = 404
               /\ store' = store
      ]_vars

\* the older of two records deleted, the newer one there
C8_Witness ==
    /\ last.op = "delete" /\ last.status = 200
    /\ last.id = 1
    /\ DOMAIN store = {2}

-----------------------------------------------------------------------------
(* C9 *)

\* a step in which update_person_db ran without raising
RepoUpdated(obs) == Called(obs, "update_person_db") /\ ~obs.raised

\* the entries of the dict given to update_person_db that are not None
Supplied(obs) == {k \in DOMAIN obs.update_data : obs.update_data[k] # None}

\* what a NUMERIC(5,2) column may hold for a supplied v (in thousandths): a
\* value of two decimals at most half a hundredth away from v
TwoDecimalsOf(stored, v) ==
    /\ stored % 10 = 0
    /\ stored - v <= 5
    /\ v - stored <= 5

\* the frame of a repository update: nothing supplied, nothing written and
\* the current record returned; else updated_at refreshed and every column
\* that was not supplied, and every other record, unchanged
UpdateFrame(obs, S, T, t) ==
    /\ DOMAIN T = DOMAIN S
    /\ obs.id \in DOMAIN S
    /\ \A j \in DOMAIN S \ {obs.id} : T[j] = S[j]
    /\ IF Supplied(obs) = {}
       THEN /\ T = S
            /\ ~obs.executed
            /\ obs.result = Some(row_dict(S[obs.id]))
       ELSE /\ T[obs.id].updated_at = t
            /\ T[obs.id].updated_at > S[obs.id].updated_at
            /\ \A k \in AllCols \ (Supplied(obs) \cup {"updated_at"}) :
                  T[obs.id][k] = S[obs.id][k]

\* C9 as stated: a repository update leaves everything as it is when no
\* non-null field is supplied, and else gives exactly the supplied columns the
\* supplied values, refreshes updated_at and leaves all other columns
\* unchanged.
C9_SuppliedValuesStored ==
    [][RepoUpdated(last') =>
          /\ UpdateFrame(last', store, store', now')
          /\ \A k \in Supplied(last') :
                store'[last'.id][k] = last'.update_data[k]
      ]_vars

\* C9 amended: as C9, the supplied columns taking the supplied values as
\* their column type stores them: height_cm and weight_kg rounded to two
\* decimals, the other columns the value itself.
C9_SuppliedValuesStoredAsColumnType ==
    [][RepoUpdated(last') =>
          /\ UpdateFrame(last', store, store', now')
          /\ \A k \in Supplied(last') :
                IF k \in {"height_cm", "weight_kg"}
                THEN /\ store'[last'.id][k] # None
                     /\ TwoDecimalsOf(Val(store'[last'.id][k]), Val(last'.update_data[k]))
                ELSE store'[last'.id][k] = last'.update_data[k]
      ]_vars

\* a full update that supplied a name and a height of three decimals, the
\* record holding address fields that were not supplied
C9_Witness ==
    /\ last.op = "update" /\ last.status = 200
    /\ Supplied(last) = {"first_name", "height_cm"}
    /\ last.update_data.height_cm = Some(180004)
    /\ store[last.id].height_cm = Some(180000)
    /\ store[last.id].first_name = Some("Bia")
    /\ store[last.id].cep # None
    /\ store[last.id].updated_at > store[last.id].created_at

-----------------------------------------------------------------------------
(* C10 *)

\* C10: a repository call that raises leaves the table as it was; a create,
\* update or delete that returns has committed all of its statement (the row
\* returned is the row of the table, the row deleted is gone); whichever way
\* a request ends, every connection it opened is closed.
C10_AllOrNothingAndClosed ==
    [][/\ openConns' = 0
       /\ last'.raised => store' = store
       /\ (last'.op = "create" /\ last'.status = 201) =>
             /\ nextId \in DOMAIN store'
             /\ row_dict(store'[nextId]) = Val(last'.result)
             /\ \A j \in DOMAIN store : j \in DOMAIN store' /\ store'[j] = store[j]
       /\ (last'.op \in {"update", "patch"} /\ last'.status = 200) =>
             /\ last'.id \in DOMAIN store'
             /\ row_dict(store'[last'.id]) = Val(last'.result)
       /\ (last'.op = "delete" /\ last'.status = 200) =>
             last'.id \notin DOMAIN store'
      ]_vars

\* an update whose statement ran and whose commit raised: the record is as
\* it was created
C10_Witness ==
    /\ last.op = "update" /\ last.status = 500
    /\ last.raised /\ last.executed
    /\ last.body = UpdateNameHeight
    /\ last.id \in DOMAIN store
    /\ store[last.id].first_name = Some("Ana")
    /\ store[last.id].updated_at = store[last.id].created_at
    /\ openConns = 0

-----------------------------------------------------------------------------
(* C11 *)

\* C11: after any sequence of lookups the cache holds at most maxsize entries
\* with distinct keys; a lookup of a code that is not in a full cache drops
\* the least recently used entry (the head), keeps the others in their order
\* and adds the new code as the most recent, so the cache does not grow; a
\* lookup answered from the cache makes its entry the most recent and drops
\* nothing.
C11_CacheBoundedLru ==
    [][/\ Len(cache') <= maxsize
       /\ Cardinality(CacheKeys(cache')) = Len(cache')
       /\ Called(last', "fetch_via_cep") =>
             /\ cache'[Len(cache')].key = LookupKey(last')
             /\ IF LookupKey(last') \in CacheKeys(cache)
                THEN /\ Len(cache') = Len(cache)
                     /\ SubSeq(cache', 1, Len(cache') - 1)
                           = Without(cache, CacheIndex(cache, LookupKey(last')))
                ELSE IF Len(cache) = maxsize
                THEN /\ Len(cache') = maxsize
                     /\ cache[1].key \notin CacheKeys(cache')
                     /\ SubSeq(cache', 1, Len(cache') - 1) = Tail(cache)
                ELSE SubSeq(cache', 1, Len(cache') - 1) = cache
       /\ ~Called(last', "fetch_via_cep") => cache' = cache
      ]_vars

\* a record was created with the address of CepA, so CepA was in the cache;
\* the cache is full and the lookup just made of another code has put CepA out
C11_Witness ==
    /\ \E id \in DOMAIN store : store[id].cep = Some(CepA)
    /\ Len(cache) = maxsize
    /\ CepA \notin CacheKeys(cache)
    /\ Called(last, "requests.get")
    /\ cache[Len(cache)].key = LookupKey(last)

-----------------------------------------------------------------------------
(* C12 *)

\* C12: a create, full update or postal-only update that carries a postal
\* code passes validation exactly when stripping the non-digit characters of
\* the code leaves 8 digits, and the value the handler then works with (the
\* key of its lookup, the most recent entry of the cache) is that 8-digit
\* string, so that a formatted code and its unformatted form use one key.
C12_AcceptedIffEightDigits ==
    (last.op \in {"create", "update", "patch"} /\ last.body.cep # None) =>
        /\ (last.status # 422) <=> (Len(re_sub_D(Val(last.body.cep))) = CepDigits)
        /\ Called(last, "fetch_via_cep") =>
              /\ cache[Len(cache)].key = re_sub_D(Val(last.body.cep))
              /\ Len(cache[Len(cache)].key) = CepDigits
        /\ validate_cep(Some(CepAFormatted)).value = validate_cep(Some(CepA)).value

-----------------------------------------------------------------------------
(* C13 *)

\* C13: when the repository update of a full or postal-only update runs and
\* the record does not exist at that moment (a delete of the id committed
\* after the existence check), and the store does not fail, the request ends
\* in 404, not in 500, and the table is left as it is: the deleted record is
\* not recreated.
C13_UpdateOfDeletedIs404 ==
    [][\A p \in pending :
          (p.pc = "update" /\ p \notin pending' /\ p.req.id \notin DOMAIN store
           /\ ~last'.raised) =>
             /\ last'.op = p.req.op /\ last'.id = p.req.id
             /\ last'.status = 404
             /\ store' = store
      ]_vars

====
